---- MODULE Spec2Model ----
(***************************************************************************)
(* State-machine model of blend.py (mosure/octree-glass): the OctreeNode   *)
(* class, init_octree, get_octree_bounds, assign_material, clear_scene and *)
(* the three operators Generate Octree, Setup Animation and Clear Octree.  *)
(*                                                                         *)
(* Lengths are integers counted in units of 1/Unit of a scene unit.  Every *)
(* length the code computes is a root size divided by a power of two, so   *)
(* with Unit a power of two no smaller than 2^depth the float divisions of *)
(* the code are exact and integer arithmetic gives the same values.        *)
(***************************************************************************)
EXTENDS Integers, Sequences, FiniteSets, TLC

\* ------------------------------------------------------------------ bounds

\* Largest octree depth explored (the panel allows 1..10).
MaxDepth == 3

\* Splits decided by the random draw (the node is not forced to split and
\* another draw would have made it a leaf) explored in one init_octree run.
MaxChanceSplits == 2

\* random.random() returns one of the values 0/DrawLevels .. (DrawLevels-1)/DrawLevels,
\* and split_prob is one of 0/DrawLevels .. DrawLevels/DrawLevels.
DrawLevels == 2

\* Operator invocations (Generate Octree, Setup Animation, Clear Octree)
\* explored in one session.
MaxOps == 3

\* Mesh objects of the user's own in the scene before the add-on is first
\* used (Blender's startup scene holds one cube).
MaxUserMeshes == 1

\* split() calls a caller of the OctreeNode class makes on the nodes of one
\* tree, and the largest depth such a caller gives the root.
MaxNodeCalls == 3
MaxNodeDepth == 2

RECURSIVE Pow(_, _)
Pow(b, e) == IF e = 0 THEN 1 ELSE b * Pow(b, e - 1)

\* Model units per scene unit.
Unit == Pow(2, IF MaxDepth >= MaxNodeDepth THEN MaxDepth ELSE MaxNodeDepth)

Draws == 0 .. (DrawLevels - 1)
SplitProbs == 0 .. DrawLevels
Depths == 0 .. MaxDepth

\* Roots a caller hands to init_octree: Generate Octree's root (origin
\* (0,0,0), size 2) and one off-centre root of another size.
Roots ==
    { [origin |-> <<0, 0, 0>>, size |-> 2 * Unit],
      [origin |-> <<Unit, -2 * Unit, 3 * Unit>>, size |-> 4 * Unit] }

\* encase_thickness values (model units): 0 and 0.5 scene units.
EncaseValues == { 0, Unit \div 2 }

\* ------------------------------------------------------------------- state

VARIABLES
    tree,              \* the OctreeNode objects: path from the root |-> node
    stack,             \* call stack of init_octree: frames [node, pc, k]
    phase,             \* "idle", "init_octree" (a run is in progress) or "done"
    calls,             \* init_octree calls made in the current run
    chance,            \* splits of the current run decided by the draw
    bounds,            \* result of the last get_octree_bounds call
    bpy,               \* the Blender scene: objects, meshes and datablocks
    split_prob,        \* scene.split_prob / the split_prob argument
    octree_depth,      \* scene.octree_depth
    encase_thickness,  \* scene.encase_thickness
    session            \* operator invocations so far and the last one's outcome

vars == <<tree, stack, phase, calls, chance, bounds, bpy, split_prob,
          octree_depth, encase_thickness, session>>

props == <<split_prob, octree_depth, encase_thickness>>

\* ------------------------------------------------------------- OctreeNode

Root == << >>

OctreeNode(origin, size, depth, max_depth) ==
    [origin |-> origin, size |-> size, depth |-> depth,
     max_depth |-> max_depth, nchildren |-> 0]

NoTree == [p \in {} |-> OctreeNode(<<0, 0, 0>>, 0, 0, 0)]

\* The three nested loops of split(): dx outermost, dz innermost, each over
\* [-0.5, 0.5].  Child j (1..8) gets the signs below.
SignX(j) == IF j <= 4 THEN -1 ELSE 1
SignY(j) == IF ((j - 1) \div 2) % 2 = 0 THEN -1 ELSE 1
SignZ(j) == IF (j - 1) % 2 = 0 THEN -1 ELSE 1

\* Variant of ChildOrigin that offsets the children by step, not step / 2.
ChildOriginFullStep(n, j) ==
    LET step == n.size \div 2
    IN  << n.origin[1] + SignX(j) * step,
           n.origin[2] + SignY(j) * step,
           n.origin[3] + SignZ(j) * step >>

\* step = size / 2; offset = (dx*step, dy*step, dz*step) with dx = +-0.5.
ChildOrigin(n, j) ==
    LET step == n.size \div 2
    IN  << n.origin[1] + SignX(j) * (step \div 2),
           n.origin[2] + SignY(j) * (step \div 2),
           n.origin[3] + SignZ(j) * (step \div 2) >>

\* Variant of ChildNode that forgets to lower the depth of the child.
ChildNodeSameDepth(n, j) ==
    OctreeNode(ChildOrigin(n, j), n.size \div 2, n.depth, n.max_depth)

ChildNode(n, j) ==
    OctreeNode(ChildOrigin(n, j), n.size \div 2, n.depth - 1, n.max_depth)

\* split(): returns at once on a node of depth 0, otherwise appends 8 new
\* children to self.children (whatever it already holds).
Split(t, p) ==
    IF t[p].depth = 0 THEN t
    ELSE LET old == t[p].nchildren
             new == [q \in { Append(p, old + j) : j \in 1 .. 8 } |->
                        ChildNode(t[p], q[Len(q)] - old)]
         IN  [t EXCEPT ![p].nchildren = old + 8] @@ new

IsLeaf(t, p) == t[p].nchildren = 0

Leaves(t) == { p \in DOMAIN t : IsLeaf(t, p) }

\* ------------------------------------------------------ get_octree_bounds

Min(a, b) == IF a <= b THEN a ELSE b
Max(a, b) == IF a >= b THEN a ELSE b

\* Variant of OwnBounds that takes the whole size for the half size.
OwnBoundsFullSize(n) ==
    << [i \in 1 .. 3 |-> n.origin[i] - n.size],
       [i \in 1 .. 3 |-> n.origin[i] + n.size] >>

OwnBounds(n) ==
    LET half_size == n.size \div 2
    IN  << [i \in 1 .. 3 |-> n.origin[i] - half_size],
           [i \in 1 .. 3 |-> n.origin[i] + half_size] >>

\* Lines 59-60: the running bounds widened by one child's bounds.
MergeBounds(acc, cb) ==
    << [i \in 1 .. 3 |-> Min(acc[1][i], cb[1][i])],
       [i \in 1 .. 3 |-> Max(acc[2][i], cb[2][i])] >>

RECURSIVE GetOctreeBounds(_, _)
RECURSIVE FoldChildBounds(_, _, _, _)

\* The for loop of get_octree_bounds: children k .. nchildren folded into
\* acc.  (The singleton sets bind each intermediate value once.)
FoldChildBounds(t, p, k, acc) ==
    IF k > t[p].nchildren THEN acc
    ELSE CHOOSE r \in { FoldChildBounds(t, p, k + 1, MergeBounds(a, cb)) :
                            a \in {acc}, cb \in {GetOctreeBounds(t, Append(p, k))} } : TRUE

GetOctreeBounds(t, p) ==
    IF t[p].nchildren = 0 THEN OwnBounds(t[p])
    ELSE FoldChildBounds(t, p, 1, OwnBounds(t[p]))

\* Generate Octree, lines 162-163.
ShellCenter(b) == [i \in 1 .. 3 |-> (b[1][i] + b[2][i]) \div 2]

MaxSpan(b) ==
    Max(b[2][1] - b[1][1], Max(b[2][2] - b[1][2], b[2][3] - b[1][3]))

ShellExtent(b, thickness) == MaxSpan(b) + 2 * thickness

\* ------------------------------------------------------------ init_octree

\* Variant of DoSplit without the forced split at max_depth.
DoSplitUnforced(n, u, prob) == u < prob

\* Line 29.  The draw u stands for random.random(); it is read only when the
\* node is not at max_depth (Python's `or` short-circuits).
DoSplit(n, u, prob) == n.depth = n.max_depth \/ u < prob

\* Variant of IsLeafCall that stops one level early.
IsLeafCallStopsEarly(n, u, prob) == n.depth <= 1 \/ ~(n.depth = n.max_depth \/ u < prob)

\* Line 31.
IsLeafCall(n, u, prob) == n.depth = 0 \/ ~DoSplit(n, u, prob)

\* The split of n was decided by the draw: n is not the forced root and a
\* draw exists that is not below split_prob.
ByChance(n, prob) == n.depth # n.max_depth /\ prob < DrawLevels

\* assign_material: one new GlassMat datablock, appended to the object's
\* material slots.  The colour, roughness and IOR it is given are written to
\* the shader node only and are read by nothing else in the file.
AssignMaterial(b, obj) ==
    [b EXCEPT !.materials = @ + 1,
              !.meshes = Append(@, [obj EXCEPT !.mats = @ + 1])]

\* Line 38: primitive_cube_add(size, location); the new cube has no material.
PrimitiveCube(size, location, by) ==
    [size |-> size, location |-> location, mats |-> 0, by |-> by]

\* Variant of CreateLeafCube that adds the cube and forgets its material.
CreateLeafCubeNoMaterial(b, n) ==
    [b EXCEPT !.meshes = Append(@, PrimitiveCube(n.size, n.origin, "leaf"))]

\* Lines 32-41: the leaf's cube, parented to OctreeEmpty, with its material.
CreateLeafCube(b, n) == AssignMaterial(b, PrimitiveCube(n.size, n.origin, "leaf"))

Top == stack[Len(stack)]
Pop(s) == SubSeq(s, 1, Len(s) - 1)
Frame(p) == [node |-> p, pc |-> "enter", k |-> 1]

\* init_octree, lines 29-44 of one call: the leaf branch creates the cube
\* and its material and returns; otherwise the node is split and the call
\* moves on to its loop over node.children.
InitOctreeEnter ==
    /\ phase = "init_octree"
    /\ stack # << >>
    /\ Top.pc = "enter"
    /\ \E u \in Draws :
          LET n == tree[Top.node] IN
          IF IsLeafCall(n, u, split_prob)
          THEN /\ bpy' = CreateLeafCube(bpy, n)
               /\ stack' = Pop(stack)
               /\ UNCHANGED <<tree, chance>>
          ELSE /\ ByChance(n, split_prob) => chance < MaxChanceSplits
               /\ chance' = IF ByChance(n, split_prob) THEN chance + 1 ELSE chance
               /\ tree' = Split(tree, Top.node)
               /\ stack' = [stack EXCEPT ![Len(stack)].pc = "loop"]
               /\ UNCHANGED bpy
    /\ UNCHANGED <<phase, calls, bounds, props, session>>

\* Lines 45-46: the next child of the loop is passed to a recursive call.
InitOctreeRecurse ==
    /\ phase = "init_octree"
    /\ stack # << >>
    /\ Top.pc = "loop"
    /\ Top.k <= tree[Top.node].nchildren
    /\ stack' = Append([stack EXCEPT ![Len(stack)].k = Top.k + 1],
                       Frame(Append(Top.node, Top.k)))
    /\ calls' = calls + 1
    /\ UNCHANGED <<tree, phase, chance, bounds, bpy, props, session>>

\* The loop is exhausted: the call returns.
InitOctreeReturn ==
    /\ phase = "init_octree"
    /\ stack # << >>
    /\ Top.pc = "loop"
    /\ Top.k > tree[Top.node].nchildren
    /\ stack' = Pop(stack)
    /\ UNCHANGED <<tree, phase, calls, chance, bounds, bpy, props, session>>

\* ------------------------------------------------------------ the scene

\* bpy.data: the named non-mesh objects (name |-> object), the mesh objects
\* in creation order, the number of GlassMat materials, and the names of the
\* camera and light datablocks.
Obj(location) == [location |-> location, keyframes |-> 0]

EmptyScene ==
    [objects |-> [x \in {} |-> Obj(<<0, 0, 0>>)], meshes |-> << >>,
     materials |-> 0, cameras |-> {}, lights |-> {}]

\* Line 145: empty_add(location=(0,0,0)), named OctreeEmpty.
WithOctreeEmpty(b) ==
    IF "OctreeEmpty" \in DOMAIN b.objects THEN b
    ELSE [b EXCEPT !.objects = @ @@ ("OctreeEmpty" :> Obj(<<0, 0, 0>>))]

NoSession ==
    [ops |-> 0, last |-> "none", result |-> "none", returned |-> << >>,
     user_meshes |-> 0]

LightNames == << "DichroicTopLight", "DichroicSideLight1", "DichroicSideLight2" >>

LightNameSet == { LightNames[i] : i \in 1 .. 3 }

\* clear_scene: every MESH object is selected and deleted; then OctreeEmpty,
\* the OctreeCam object and camera, and the three lights with their data,
\* each if present.  Materials are left in bpy.data.materials.
ClearScene(b) ==
    [b EXCEPT
        !.meshes = << >>,
        !.objects = [x \in (DOMAIN @) \ ({"OctreeEmpty", "OctreeCam"} \cup LightNameSet) |-> @[x]],
        !.cameras = @ \ {"OctreeCam"},
        !.lights = @ \ { n \o "Data" : n \in LightNameSet }]

\* One light of setup_lights: added, with its data, unless an object of
\* that name exists.
AddLight(b, name, location) ==
    IF name \in DOMAIN b.objects THEN b
    ELSE [b EXCEPT !.objects = @ @@ (name :> Obj(location)),
                   !.lights = @ \cup {name \o "Data"}]

\* setup_lights, lines 177-204: light_distance = extent * 3.
SetupLights(b, center, extent) ==
    LET d == extent * 3
        b1 == AddLight(b, LightNames[1], <<center[1], center[2], center[3] + d>>)
        b2 == AddLight(b1, LightNames[2], <<center[1] - d, center[2], center[3]>>)
    IN  AddLight(b2, LightNames[3], <<center[1], center[2] - d, center[3]>>)

\* setup_lights, line 206: the three locals are bound only in the branches
\* that create a light, so the return raises when a light already existed.
SetupLightsReturn(b) ==
    IF \E n \in LightNameSet : n \in DOMAIN b.objects
    THEN [raised |-> "UnboundLocalError", lights |-> << >>]
    ELSE [raised |-> "", lights |-> LightNames]

FramesPerRevolution == 300
FrameStep == 10

\* Keyframes the loop of line 240 inserts: frames 0, 10, .., 300.
Keyframes == FramesPerRevolution \div FrameStep + 1

\* setup_camera_animation, lines 210-245, up to the call of setup_lights:
\* the camera (created at center - (0, 4*extent, 0) unless an OctreeCam camera
\* exists), TargetEmpty at the center, and the keyframes of the orbit, whose
\* last one (angle 2 * 3.14159) leaves the camera at center + (4*extent, 0, 0)
\* to within the grid of the model.
SetupCamera(b, center, extent) ==
    LET camera_distance == extent * 4
        cam == [location |-> <<center[1] + camera_distance, center[2], center[3]>>,
                keyframes |-> Keyframes]
        b1 == IF "OctreeCam" \notin b.cameras
              THEN [b EXCEPT !.objects = [x \in (DOMAIN @) \cup {"OctreeCam"} |->
                                             IF x = "OctreeCam" THEN cam ELSE @[x]],
                             !.cameras = @ \cup {"OctreeCam"}]
              ELSE [b EXCEPT !.objects["OctreeCam"] = cam]
    IN  [b1 EXCEPT !.objects = [x \in (DOMAIN @) \cup {"TargetEmpty"} |->
                                   IF x = "TargetEmpty" THEN Obj(center) ELSE @[x]]]

\* Line 217 looks the camera object up by name when the camera data exists.
CameraLookupFails(b) ==
    "OctreeCam" \in b.cameras /\ "OctreeCam" \notin DOMAIN b.objects

\* --------------------------------------------- init_octree on a fresh root

\* A caller builds a root with depth = max_depth and calls init_octree on it.
TreeInit ==
    /\ \E r \in Roots, d \in Depths :
          tree = (Root :> OctreeNode(r.origin, r.size, d, d))
    /\ split_prob \in SplitProbs
    /\ stack = << Frame(Root) >>
    /\ phase = "init_octree"
    /\ calls = 1
    /\ chance = 0
    /\ bounds = << >>
    /\ bpy = WithOctreeEmpty(EmptyScene)
    /\ octree_depth = 1
    /\ encase_thickness = 0
    /\ session = NoSession

\* init_octree has returned; the caller asks for the bounds.
TreeBounds ==
    /\ phase = "init_octree"
    /\ stack = << >>
    /\ bounds' = GetOctreeBounds(tree, Root)
    /\ phase' = "done"
    /\ UNCHANGED <<tree, stack, calls, chance, bpy, props, session>>

TreeNext ==
    \/ InitOctreeEnter
    \/ InitOctreeRecurse
    \/ InitOctreeReturn
    \/ TreeBounds

SpecTree == TreeInit /\ [][TreeNext]_vars

\* ----------------------------------------- claims about init_octree runs

Done == phase = "done"

RootNode == tree[Root]

LeafMeshes == { i \in 1 .. Len(bpy.meshes) : bpy.meshes[i].by = "leaf" }

\* C1: with depth = max_depth = d >= 1 and splitProbability = 1, the finished
\* tree has exactly 8^d leaves, all at depth 0 and of size rootSize / 2^d,
\* and one cube was created for each of them.
C1_FullSplitLeaves ==
    (Done /\ split_prob = DrawLevels /\ RootNode.max_depth >= 1) =>
        LET d == RootNode.max_depth IN
        /\ Cardinality(Leaves(tree)) = Pow(8, d)
        /\ Cardinality(LeafMeshes) = Pow(8, d)
        /\ \A p \in Leaves(tree) :
              /\ tree[p].depth = 0
              /\ tree[p].size * Pow(2, d) = RootNode.size

C1_Witness ==
    /\ Done
    /\ split_prob = DrawLevels
    /\ RootNode.max_depth >= 2
    /\ Cardinality(Leaves(tree)) = Pow(8, RootNode.max_depth)

\* C2: for max_depth >= 1 the root is always subdivided, whatever
\* split_prob and the draws are: the result has at least 8 leaves; and with
\* split_prob = 0 only the root splits: exactly 8 leaves of size rootSize/2.
C2_ForcedRootSplit ==
    (Done /\ RootNode.max_depth >= 1) =>
        /\ RootNode.nchildren = 8
        /\ Cardinality(Leaves(tree)) >= 8
        /\ Cardinality(LeafMeshes) >= 8
        /\ split_prob = 0 =>
              /\ Cardinality(Leaves(tree)) = 8
              /\ Cardinality(LeafMeshes) = 8
              /\ \A p \in Leaves(tree) : tree[p].size * 2 = RootNode.size

C2_Witness ==
    /\ Done
    /\ split_prob = 0
    /\ RootNode.max_depth >= 2
    /\ Cardinality(Leaves(tree)) = 8

\* Every call on the stack is on a node of depth >= 0, one less than the
\* depth of the node of the call that made it.
CallDepths ==
    \A i \in 1 .. Len(stack) :
        /\ tree[stack[i].node].depth >= 0
        /\ i > 1 => tree[stack[i].node].depth = tree[stack[i - 1].node].depth - 1

\* Most steps a call of init_octree on a node of depth d can take.
RECURSIVE CallSteps(_)
CallSteps(d) == IF d <= 0 THEN 1 ELSE 2 + 8 * (1 + CallSteps(d - 1))

\* Steps the frame f can still take, with the calls it has yet to make.
FrameSteps(f) ==
    LET n == tree[f.node] IN
    IF f.pc = "enter" THEN CallSteps(n.depth)
    ELSE 1 + (n.nchildren + 1 - f.k) * (1 + CallSteps(n.depth - 1))

RECURSIVE StackSteps(_)
StackSteps(i) == IF i = 0 THEN 0 ELSE FrameSteps(stack[i]) + StackSteps(i - 1)

\* Variant of the run: an upper bound on the steps left before Done.
StepsLeft == IF Done THEN 0 ELSE 1 + StackSteps(Len(stack))

\* C5: init_octree terminates for every max_depth >= 0, split_prob and
\* sequence of draws (a natural number bounds the steps left and every step
\* lowers it, and a run that has not finished can always step); each
\* recursive call is on a node one level lower than its caller's, none on a
\* node of depth < 0, and the finished tree has at most 8^max_depth leaves.
C5_Terminates ==
    /\ [](CallDepths /\ Len(stack) <= RootNode.max_depth + 1)
    /\ [](StepsLeft >= 0 /\ (Done \/ ENABLED TreeNext))
    /\ [][StepsLeft' < StepsLeft]_vars
    /\ [](Done => Cardinality(Leaves(tree)) <= Pow(8, RootNode.max_depth))

C5_Witness ==
    /\ Done
    /\ RootNode.max_depth = MaxDepth
    /\ 0 < split_prob /\ split_prob < DrawLevels
    /\ calls > 17

\* C6: each leaf reached creates exactly one cube (edge node.size, located
\* at node.origin) carrying exactly one material, internal nodes create
\* none; after init_octree returns the cubes and the materials it created
\* are as many as the childless nodes of the tree.
C6_OneCubePerLeaf ==
    /\ bpy.materials = Len(bpy.meshes)
    /\ bpy.meshes # << >> => bpy.meshes[Len(bpy.meshes)].mats = 1
    /\ (stack = << >>) =>
          /\ Len(bpy.meshes) = Cardinality(Leaves(tree))
          /\ \A i \in 1 .. Len(bpy.meshes) : bpy.meshes[i].mats = 1
          /\ { <<bpy.meshes[i].size, bpy.meshes[i].location>> : i \in 1 .. Len(bpy.meshes) }
                = { <<tree[p].size, tree[p].origin>> : p \in Leaves(tree) }
          /\ Cardinality({ <<tree[p].size, tree[p].origin>> : p \in Leaves(tree) })
                = Cardinality(Leaves(tree))

C6_Witness ==
    /\ Done
    /\ bpy.materials > 8
    /\ bpy.materials < Pow(8, RootNode.max_depth)
    /\ \E p \in DOMAIN tree : Len(p) = 2 /\ ~IsLeaf(tree, p)

BoxOf(origin, size) ==
    << [i \in 1 .. 3 |-> origin[i] - size \div 2],
       [i \in 1 .. 3 |-> origin[i] + size \div 2] >>

\* C7: for every tree init_octree produces from a root of origin o and size
\* S, get_octree_bounds(root) is (o - S/2, o + S/2) on each axis, the call
\* leaves the tree as it was, and the shell Generate Octree derives from the
\* bounds has centre o and extent S + 2 * encase_thickness.
C7_BoundsAreRootBox ==
    /\ [](Done =>
            /\ bounds = BoxOf(RootNode.origin, RootNode.size)
            /\ ShellCenter(bounds) = RootNode.origin
            /\ \A e \in EncaseValues :
                  ShellExtent(bounds, e) = RootNode.size + 2 * e)
    /\ [][phase' = "done" => tree' = tree]_vars

C7_Witness ==
    /\ Done
    /\ RootNode.origin # <<0, 0, 0>>
    /\ \E p \in DOMAIN tree : Len(p) = 2 /\ ~IsLeaf(tree, p)
    /\ \E p \in DOMAIN tree : Len(p) = 1 /\ IsLeaf(tree, p)
    /\ bounds = BoxOf(RootNode.origin, RootNode.size)

\* ------------------------------------------- callers of the OctreeNode class

\* A caller constructs a root node and calls split on nodes of its tree.
NodeInit ==
    /\ \E d \in 0 .. MaxNodeDepth :
          tree = (Root :> OctreeNode(<<Unit, -2 * Unit, 3 * Unit>>, 4 * Unit, d, d))
    /\ split_prob \in SplitProbs
    /\ stack = << >>
    /\ phase = "idle"
    /\ calls = 0
    /\ chance = 0
    /\ bounds = << >>
    /\ bpy = WithOctreeEmpty(EmptyScene)
    /\ octree_depth = 1
    /\ encase_thickness = 0
    /\ session = NoSession

\* node.split() on any node of the tree.
SplitCall ==
    /\ phase = "idle"
    /\ session.ops < MaxNodeCalls
    /\ \E p \in DOMAIN tree : tree' = Split(tree, p)
    /\ session' = [session EXCEPT !.ops = @ + 1, !.last = "split"]
    /\ UNCHANGED <<stack, phase, calls, chance, bounds, bpy, props>>

NodeNext == SplitCall

SpecNode == NodeInit /\ [][NodeNext]_vars

\* ------------------------------------------------ claims about the nodes

\* The 8 children a split of the childless node p has just added in t2: the
\* sign combinations in the order x outermost, z innermost.
EightOctants(t2, p) ==
    LET n == t2[p] IN
    /\ n.nchildren = 8
    /\ \A j \in 1 .. 8 :
          LET c == t2[Append(p, j)] IN
          /\ c.size * 2 = n.size
          /\ c.depth = n.depth - 1
          /\ c.max_depth = n.max_depth
          /\ c.nchildren = 0
          /\ c.origin[1] * 4 = n.origin[1] * 4 + (IF j \in {5, 6, 7, 8} THEN n.size ELSE -n.size)
          /\ c.origin[2] * 4 = n.origin[2] * 4 + (IF j \in {3, 4, 7, 8} THEN n.size ELSE -n.size)
          /\ c.origin[3] * 4 = n.origin[3] * 4 + (IF j \in {2, 4, 6, 8} THEN n.size ELSE -n.size)

\* The child cubes tile the cube of p: each lies inside it, no two share an
\* interior point, and their volumes add up to its volume.
TilesParent(t2, p) ==
    LET n == t2[p]
        kids == { Append(p, j) : j \in 1 .. n.nchildren }
        box(q) == OwnBounds(t2[q])
    IN  /\ \A q \in kids : \A i \in 1 .. 3 :
              box(q)[1][i] >= box(p)[1][i] /\ box(q)[2][i] <= box(p)[2][i]
        /\ \A q, r \in kids :
              q # r => \E i \in 1 .. 3 :
                  box(q)[2][i] <= box(r)[1][i] \/ box(r)[2][i] <= box(q)[1][i]
        /\ n.nchildren * (n.size \div 2) * (n.size \div 2) * (n.size \div 2)
              = n.size * n.size * n.size

\* C3: split() on a childless node of depth > 0, origin o and size s gives
\* it exactly 8 children of size s/2, depth one less and the same max_depth,
\* at o + (sx*s/4, sy*s/4, sz*s/4) for the 8 sign combinations, x outermost
\* and z innermost; the 8 child cubes tile the parent cube.
C3_SplitMakesOctants ==
    [][\A p \in DOMAIN tree :
          (tree[p].nchildren = 0 /\ tree[p].depth > 0 /\ tree'[p].nchildren # 0) =>
              (EightOctants(tree', p) /\ TilesParent(tree', p))]_vars

C3_Witness ==
    /\ session.last = "split"
    /\ \E p \in DOMAIN tree :
          /\ Len(p) = 1
          /\ tree[p].nchildren = 8
          /\ tree[Append(p, 3)].origin[2] > tree[p].origin[2]
          /\ tree[Append(p, 3)].origin[1] < tree[p].origin[1]

\* C4: whatever split() and init_octree calls are made, every node has
\* exactly 0 or exactly 8 children, and a node of depth 0 has none.
C4_ZeroOrEightChildren ==
    \A p \in DOMAIN tree :
        /\ tree[p].nchildren \in {0, 8}
        /\ tree[p].depth = 0 => tree[p].nchildren = 0

\* ------------------------------------------------------------ the operators

\* The scene before the add-on is first used, and the panel's properties.
Init ==
    /\ tree = NoTree
    /\ stack = << >>
    /\ phase = "idle"
    /\ calls = 0
    /\ chance = 0
    /\ bounds = << >>
    /\ bpy = [EmptyScene EXCEPT !.meshes =
                  [i \in 1 .. MaxUserMeshes |-> PrimitiveCube(2 * Unit, <<0, 0, 0>>, "user")]]
    /\ session = [NoSession EXCEPT !.user_meshes = MaxUserMeshes]
    /\ split_prob \in SplitProbs
    /\ octree_depth \in 1 .. MaxDepth
    /\ encase_thickness \in EncaseValues

\* OT_GenerateOctree.execute, lines 142-159, up to the call of init_octree.
GenerateBegin ==
    /\ phase = "idle"
    /\ session.ops < MaxOps
    /\ bpy' = WithOctreeEmpty(ClearScene(bpy))
    /\ tree' = (Root :> OctreeNode(<<0, 0, 0>>, 2 * Unit, octree_depth, octree_depth))
    /\ stack' = << Frame(Root) >>
    /\ phase' = "init_octree"
    /\ calls' = 1
    /\ chance' = 0
    /\ session' = [session EXCEPT !.ops = @ + 1, !.last = "generate_octree",
                                  !.result = "RUNNING", !.returned = << >>]
    /\ UNCHANGED <<bounds, props>>

\* Lines 161-173: the bounds, the outer cube with its material, rotate_empty
\* (which only turns OctreeEmpty); the tree is dropped on return.
GenerateEnd ==
    /\ phase = "init_octree"
    /\ session.last = "generate_octree"
    /\ stack = << >>
    /\ LET b == GetOctreeBounds(tree, Root) IN
          /\ bounds' = b
          /\ bpy' = AssignMaterial(bpy,
                        PrimitiveCube(ShellExtent(b, encase_thickness), ShellCenter(b), "shell"))
    /\ tree' = NoTree
    /\ phase' = "idle"
    /\ calls' = 0
    /\ chance' = 0
    /\ session' = [session EXCEPT !.result = "FINISHED"]
    /\ UNCHANGED <<stack, props>>

\* OT_SetupAnimation.execute: the bounds of a fresh, unsplit root, then
\* setup_camera_animation and, at its end, setup_lights.
SetupAnimation ==
    /\ phase = "idle"
    /\ session.ops < MaxOps
    /\ LET root == OctreeNode(<<0, 0, 0>>, 2 * Unit, octree_depth, octree_depth)
           b == GetOctreeBounds(Root :> root, Root)
           center == ShellCenter(b)
           extent == MaxSpan(b)
       IN  /\ bounds' = b
           /\ IF CameraLookupFails(bpy)
              THEN /\ bpy' = bpy
                   /\ session' = [session EXCEPT !.ops = @ + 1, !.last = "setup_animation",
                                      !.result = "KeyError", !.returned = << >>]
              ELSE LET b1 == SetupCamera(bpy, center, extent)
                       ret == SetupLightsReturn(b1)
                   IN  /\ bpy' = SetupLights(b1, center, extent)
                       /\ session' = [session EXCEPT !.ops = @ + 1, !.last = "setup_animation",
                                          !.result = IF ret.raised = "" THEN "FINISHED" ELSE ret.raised,
                                          !.returned = ret.lights]
    /\ UNCHANGED <<tree, stack, phase, calls, chance, props>>

\* OT_ClearScene.execute.
ClearOctree ==
    /\ phase = "idle"
    /\ session.ops < MaxOps
    /\ bpy' = ClearScene(bpy)
    /\ session' = [session EXCEPT !.ops = @ + 1, !.last = "clear_octree",
                                  !.result = "FINISHED", !.returned = << >>]
    /\ UNCHANGED <<tree, stack, phase, calls, chance, bounds, props>>

Next ==
    \/ GenerateBegin
    \/ InitOctreeEnter
    \/ InitOctreeRecurse
    \/ InitOctreeReturn
    \/ GenerateEnd
    \/ SetupAnimation
    \/ ClearOctree

Spec == Init /\ [][Next]_vars

\* ------------------------------------------- claims about the operators

ShellMeshes == { i \in 1 .. Len(bpy.meshes) : bpy.meshes[i].by = "shell" }

UserMeshes == { i \in 1 .. Len(bpy.meshes) : bpy.meshes[i].by = "user" }

\* C8: the extent Setup Animation places the camera (4 * extent away) and
\* the lights (3 * extent away) with is the extent of the enclosing shell
\* Generate Octree creates for the same configuration:
\* max(axis spans) + 2 * encase_thickness.
C8_AnimationUsesShellExtent ==
    (phase = "idle" /\ session.last = "setup_animation" /\ session.result = "FINISHED") =>
        \A i \in ShellMeshes :
            LET extent == bpy.meshes[i].size IN
            /\ extent = 2 * Unit + 2 * encase_thickness
            /\ bpy.objects["OctreeCam"].location[1] = 4 * extent
            /\ bpy.objects["DichroicTopLight"].location[3] = 3 * extent
            /\ bpy.objects["DichroicSideLight1"].location[1] = -3 * extent
            /\ bpy.objects["DichroicSideLight2"].location[2] = -3 * extent

\* Assets the add-on created that are still in the scene.
OwnAssetsLeft ==
    \/ \E i \in 1 .. Len(bpy.meshes) : bpy.meshes[i].by # "user"
    \/ bpy.materials # 0
    \/ DOMAIN bpy.objects # {}
    \/ bpy.cameras # {}
    \/ bpy.lights # {}

\* C9: after clear_scene no cube, material, empty, light or camera the
\* add-on created remains, no object the add-on did not create has been
\* removed, and clearing again changes nothing.
C9_ClearRemovesExactlyOwnAssets ==
    /\ []((session.last = "clear_octree") =>
            (~OwnAssetsLeft /\ Cardinality(UserMeshes) = session.user_meshes))
    /\ [][(session.last = "clear_octree" /\ session'.last = "clear_octree") => bpy' = bpy]_vars

\* C10: Setup Animation completes without raising in every reachable scene,
\* setup_lights returns the three lights, and afterwards there is exactly
\* one object for each of the three lights and for OctreeCam.
C10_SetupAnimationCompletes ==
    (session.last = "setup_animation") =>
        /\ session.result = "FINISHED"
        /\ session.returned = LightNames
        /\ LightNameSet \cup {"OctreeCam"} \subseteq DOMAIN bpy.objects

====
